---- MODULE Spec2Model ----
(***************************************************************************)
(* State-machine model of the synchronization engine of the repository:   *)
(* the table registry (allowed_tables), the job and watermark tables      *)
(* (sync_jobs, table_sync_status), the destination store, the source      *)
(* client and the handlers of SyncService and AdminService that act on    *)
(* them.                                                                   *)
(*                                                                         *)
(* A source row is identified by the value r of its NUMBER column "id";   *)
(* its VARCHAR column "code" holds the one-letter text KeyText(r).  SQL    *)
(* NULL / Python None is the string Null in text fields and 0 in           *)
(* timestamp and identifier fields (real identifiers and timestamps start *)
(* at 1).  Columns that no statement of the modelled code reads or writes *)
(* (created_at, rows_synced, last_sync_id) are left out of the rows.      *)
(***************************************************************************)
EXTENDS Integers, Sequences, FiniteSets, TLC

\* ------------------------------------------------------------------ bounds
MaxRow == 2          \* source rows are 1..MaxRow
MaxJobs == 2         \* sync jobs started in one behaviour
MaxTableIds == 2     \* table identifiers generated in one behaviour
MaxBatch == 2        \* batch sizes offered to start_sync are 1..MaxBatch
MaxFilter == 0       \* filters offered are "id <= k", k in 0..MaxFilter
MaxClock == 5        \* the hours that pass in one behaviour of the worker
MaxRegistryJobs == 1 \* sync jobs started in one behaviour of the registry
MaxColumns == 2      \* columns of a schema given to the translator

Rows == 1..MaxRow
BatchSizes == 1..MaxBatch

Null == "NULL"

\* str(None), the text "None" as code points
PyStrNone == <<78, 111, 110, 101>>

\* --------------------------------------------------------- names and pairs
\* The one source table every query of the source client names.
HardCodedTable == [schema_name |-> "WORKSPACE_833213390", table_name |-> "data"]
OtherTable == [schema_name |-> "sales", table_name |-> "orders"]
Pairs == {HardCodedTable, OtherTable}

\* SQL UPPER() on the names the requests use.
Upper(s) ==
    CASE s = "data" -> "DATA"
      [] s = "orders" -> "ORDERS"
      [] s = "sales" -> "SALES"
      [] OTHER -> s

\* The name under which the source catalog (information_schema.tables) lists
\* the table a request pair denotes: the hard-coded table was created with a
\* quoted lower-case name, the other with unquoted (upper-cased) names.
CatalogName(p) ==
    IF p = HardCodedTable
    THEN [schema_name |-> "WORKSPACE_833213390", table_name |-> "data"]
    ELSE [schema_name |-> Upper(p.schema_name), table_name |-> Upper(p.table_name)]

\* ------------------------------------------------------------ enumerations
FULL == "full"
INCREMENTAL == "incremental"
SNAPSHOT == "snapshot"
SyncStrategy == {FULL, INCREMENTAL, SNAPSHOT}

PENDING == "pending"
RUNNING == "running"
COMPLETED == "completed"
FAILED == "failed"
SyncStatus == {PENDING, RUNNING, COMPLETED, FAILED}

\* incremental_key of a request: a column of the source table, or none
IncrementalKeys == {Null, "id", "code"}

NoFilter == [present |-> FALSE, le |-> 0]
Filters == {NoFilter} \cup {[present |-> TRUE, le |-> k] : k \in 0..MaxFilter}

SyncRequests ==
    [pair : Pairs, strategy : SyncStrategy, incremental_key : IncrementalKeys,
     filter_condition : Filters, batch_size : BatchSizes]

\* A request carries an incremental key only with the incremental strategy
\* (the field is optional and read by the incremental branch alone).
OfferedRequests ==
    {q \in SyncRequests : q.strategy # INCREMENTAL => q.incremental_key = Null}

\* --------------------------------------------------------------- variables
VARIABLES
    db,           \* the committed store: allowed_tables, sync_jobs,
                  \* table_sync_status and the destination tables
    txn,          \* the open transaction of the service connection
    src,          \* source warehouse: pair -> [exists, rows]
    svc,          \* the handler in progress and its local variables
    resp,         \* what the last finished handler returned or raised
    nextTableId,  \* uuid.uuid4() for table_id: next fresh identifier
    nextJobId,    \* uuid.uuid4() for job_id: next fresh identifier
    clock,        \* datetime.utcnow(): next timestamp
    runs,         \* history of the job bodies run so far
    celery,       \* the worker: the sync_table task and the latest sweep
    translator,   \* _create_duckdb_table: its columns argument and the
                  \* column definitions it built
    parked        \* a second handler in progress, waiting between two of
                  \* its statements while svc runs

vars ==
    <<db, txn, src, svc, resp, nextTableId, nextJobId, clock, runs, celery,
      translator, parked>>

\* ------------------------------------------------------------------- bags
EmptyBag == [r \in Rows |-> 0]
BagOf(S) == [r \in Rows |-> IF r \in S THEN 1 ELSE 0]
BagAdd(b, S) == [r \in Rows |-> IF r \in S THEN b[r] + 1 ELSE b[r]]

NoDestTable == [exists |-> FALSE, rows |-> EmptyBag]
NoSourceTable == [exists |-> FALSE, rows |-> {}]

\* ------------------------------------------------- the metadata store (SQL)
\* A statement yields [err, db]: err = Null and the store after it, or the
\* error it raised and the store unchanged.
Ok(D) == [err |-> Null, db |-> D]
Raise(e, D) == [err |-> e, db |-> D]

ConstraintError == "ConstraintException"
BinderError == "BinderException"

EmptyDb ==
    [allowed_tables |-> {}, sync_jobs |-> {}, table_sync_status |-> {},
     dest |-> [p \in Pairs |-> NoDestTable]]

AllowedRow(tid, p, st) ==
    [table_id |-> tid, table_name |-> p.table_name,
     schema_name |-> p.schema_name, source |-> "snowflake", status |-> st]

\* SELECT ... FROM allowed_tables WHERE table_name = ? AND schema_name = ?
SelectAllowed(D, p) ==
    {r \in D.allowed_tables :
        r.table_name = p.table_name /\ r.schema_name = p.schema_name}

\* The variant of the table with table_id UUID PRIMARY KEY alone.
AllowedTablesNoUnique(D, row) ==
    \E r \in D.allowed_tables : r.table_id = row.table_id

\* table_id UUID PRIMARY KEY, UNIQUE (schema_name, table_name)
AllowedTablesConflict(D, row) ==
    \E r \in D.allowed_tables :
        \/ r.table_id = row.table_id
        \/ r.schema_name = row.schema_name /\ r.table_name = row.table_name

\* INSERT INTO allowed_tables (...) VALUES (?, ?, ?, 'snowflake', 'active')
InsertAllowed(D, row) ==
    IF AllowedTablesConflict(D, row)
    THEN Raise(ConstraintError, D)
    ELSE Ok([D EXCEPT !.allowed_tables = @ \cup {row}])

\* UPDATE allowed_tables SET status = ? WHERE <the rows in S>
UpdateAllowedStatus(D, S, st) ==
    Ok([D EXCEPT !.allowed_tables =
            {IF r \in S THEN [r EXCEPT !.status = st] ELSE r : r \in @}])

\* FOREIGN KEY (table_id) REFERENCES allowed_tables(table_id), in sync_jobs
\* and table_sync_status
TableReferenced(D, tid) ==
    \/ \E j \in D.sync_jobs : j.table_id = tid
    \/ \E w \in D.table_sync_status : w.table_id = tid

\* DELETE FROM allowed_tables WHERE table_id = ?
DeleteAllowed(D, tid) ==
    IF TableReferenced(D, tid)
    THEN Raise(ConstraintError, D)
    ELSE Ok([D EXCEPT !.allowed_tables = {r \in @ : r.table_id # tid}])

\* The variant of table_sync_status without the foreign key on job_id.
JobNeverReferenced(D, jid) == FALSE

\* FOREIGN KEY (job_id) REFERENCES sync_jobs(job_id), in table_sync_status
JobReferenced(D, jid) == \E w \in D.table_sync_status : w.job_id = jid

\* INSERT INTO sync_jobs (job_id, table_id, strategy, status, started_at)
InsertJob(D, row) ==
    IF \/ \E j \in D.sync_jobs : j.job_id = row.job_id
       \/ ~ \E r \in D.allowed_tables : r.table_id = row.table_id
    THEN Raise(ConstraintError, D)
    ELSE Ok([D EXCEPT !.sync_jobs = @ \cup {row}])

\* DELETE FROM sync_jobs WHERE table_id = ?
DeleteJobsOfTable(D, tid) ==
    IF \E j \in D.sync_jobs : j.table_id = tid /\ JobReferenced(D, j.job_id)
    THEN Raise(ConstraintError, D)
    ELSE Ok([D EXCEPT !.sync_jobs = {j \in @ : j.table_id # tid}])

\* DELETE FROM table_sync_status WHERE table_id = ?
DeleteStatusOfTable(D, tid) ==
    Ok([D EXCEPT !.table_sync_status = {w \in @ : w.table_id # tid}])

\* DROP TABLE IF EXISTS "{schema_name}"."{table_name}"
DropTableIfExists(D, p) == Ok([D EXCEPT !.dest[p] = NoDestTable])

\* CREATE SCHEMA IF NOT EXISTS; CREATE TABLE IF NOT EXISTS {schema}.{table}
CreateTableIfNotExists(D, p) ==
    IF D.dest[p].exists THEN Ok(D)
    ELSE Ok([D EXCEPT !.dest[p] = [exists |-> TRUE, rows |-> EmptyBag]])

\* DELETE FROM {schema_name}.{table_name}
DeleteFromDest(D, p) ==
    IF ~ D.dest[p].exists THEN Raise("CatalogException", D)
    ELSE Ok([D EXCEPT !.dest[p].rows = EmptyBag])

\* INSERT INTO {schema_name}.{table_name} SELECT * FROM temp_df
InsertIntoDest(D, p, df) ==
    IF ~ D.dest[p].exists THEN Raise("CatalogException", D)
    ELSE Ok([D EXCEPT !.dest[p].rows = BagAdd(@, df)])

\* stats JSON: a key that is not there reads as None, whose text is "None".
NoStats ==
    [present |-> FALSE, rows_processed |-> 0, total_rows |-> 0,
     last_value |-> PyStrNone]

JobRow(jid, tid, strategy, st, started) ==
    [job_id |-> jid, table_id |-> tid, strategy |-> strategy, status |-> st,
     error_message |-> Null, started_at |-> started, completed_at |-> 0,
     stats |-> NoStats]

\* UPDATE sync_jobs SET status = ?, completed_at = ?, stats = ? WHERE job_id = ?
UpdateJobCompleted(D, jid, t, stats) ==
    Ok([D EXCEPT !.sync_jobs =
            {IF j.job_id = jid
             THEN [j EXCEPT !.status = COMPLETED, !.completed_at = t,
                            !.stats = stats]
             ELSE j : j \in @}])

\* The variant of the UPDATE that leaves error_message as it was.
UpdateJobFailedNoMessage(D, jid, t, msg) ==
    Ok([D EXCEPT !.sync_jobs =
            {IF j.job_id = jid
             THEN [j EXCEPT !.status = FAILED, !.completed_at = t]
             ELSE j : j \in @}])

\* UPDATE sync_jobs SET status = ?, completed_at = ?, error_message = ?
\* WHERE job_id = ?
UpdateJobFailed(D, jid, t, msg) ==
    Ok([D EXCEPT !.sync_jobs =
            {IF j.job_id = jid
             THEN [j EXCEPT !.status = FAILED, !.completed_at = t,
                            !.error_message = msg]
             ELSE j : j \in @}])

StatusRow(tid, jid, st, t, n) ==
    [table_id |-> tid, job_id |-> jid, last_sync_status |-> st,
     last_sync_at |-> t, last_error_message |-> Null, total_rows_synced |-> n]

\* The variant of the table without its two foreign keys.
UpsertStatusNoForeignKeys(D, row) ==
    IF \E w \in D.table_sync_status :
           w.table_id = row.table_id /\ w.job_id = row.job_id
    THEN Ok([D EXCEPT !.table_sync_status =
                {IF w.table_id = row.table_id /\ w.job_id = row.job_id
                 THEN [w EXCEPT !.last_sync_status = row.last_sync_status,
                                !.last_sync_at = row.last_sync_at,
                                !.total_rows_synced = row.total_rows_synced]
                 ELSE w : w \in @}])
    ELSE Ok([D EXCEPT !.table_sync_status = @ \cup {row}])

\* INSERT INTO table_sync_status (table_id, job_id, last_sync_status,
\* last_sync_at, total_rows_synced) VALUES (...) ON CONFLICT (table_id, job_id)
\* DO UPDATE SET last_sync_status, last_sync_at, total_rows_synced; the table
\* has PRIMARY KEY (table_id, job_id) and a foreign key on each of the two.
UpsertStatus(D, row) ==
    IF \/ ~ \E r \in D.allowed_tables : r.table_id = row.table_id
       \/ ~ \E j \in D.sync_jobs : j.job_id = row.job_id
    THEN Raise(ConstraintError, D)
    ELSE IF \E w \in D.table_sync_status :
              w.table_id = row.table_id /\ w.job_id = row.job_id
    THEN Ok([D EXCEPT !.table_sync_status =
                {IF w.table_id = row.table_id /\ w.job_id = row.job_id
                 THEN [w EXCEPT !.last_sync_status = row.last_sync_status,
                                !.last_sync_at = row.last_sync_at,
                                !.total_rows_synced = row.total_rows_synced]
                 ELSE w : w \in @}])
    ELSE Ok([D EXCEPT !.table_sync_status = @ \cup {row}])

\* The variant of the UPDATE that also clears the counts of the rows.
UpdateStatusFailedClearsCounts(D, tid, msg) ==
    Ok([D EXCEPT !.table_sync_status =
            {IF w.table_id = tid
             THEN [w EXCEPT !.last_sync_status = FAILED,
                            !.last_error_message = msg,
                            !.last_sync_at = 0,
                            !.total_rows_synced = 0]
             ELSE w : w \in @}])

\* UPDATE table_sync_status SET last_sync_status = ?, last_error_message = ?
\* WHERE table_id = ?
UpdateStatusFailed(D, tid, msg) ==
    Ok([D EXCEPT !.table_sync_status =
            {IF w.table_id = tid
             THEN [w EXCEPT !.last_sync_status = FAILED,
                            !.last_error_message = msg]
             ELSE w : w \in @}])

\* The columns init_duckdb_tables gives table_sync_status.
TableSyncStatusColumns ==
    {"table_id", "job_id", "last_sync_id", "last_sync_at", "last_sync_status",
     "last_error_message", "total_rows_synced"}

\* ------------------------------------------------------- the source client
\* Text is a sequence of code points.

\* The VARCHAR column "code" of row r: "N", "O", "P", ...
KeyText(r) == <<77 + r>>

RECURSIVE LexGreater(_, _)
LexGreater(a, b) ==
    IF a = <<>> THEN FALSE
    ELSE IF b = <<>> THEN TRUE
    ELSE IF a[1] # b[1] THEN a[1] > b[1]
    ELSE LexGreater(Tail(a), Tail(b))

IsNumeric(t) == t # <<>> /\ \A i \in 1..Len(t) : t[i] \in 48..57

RECURSIVE ParseNumber(_)
ParseNumber(t) ==
    IF t = <<>> THEN 0
    ELSE 10 * ParseNumber(SubSeq(t, 1, Len(t) - 1)) + (t[Len(t)] - 48)

OperationalError == "OperationalError"
ProgrammingError == "ProgrammingError"
SourceFaults == {Null, OperationalError, ProgrammingError}

\* A WHERE clause: the incremental comparison "{key}" > '{literal}' when inc,
\* AND the caller's filter expression when it is present.
NoWhere == [inc |-> FALSE, key |-> Null, literal |-> <<>>, filter |-> NoFilter]

\* The source rejects the comparison: the column "None" does not exist, and a
\* NUMBER column is compared with a text that is no number.
WhereError(w) ==
    w.inc /\ (\/ w.key = Null
              \/ w.key = "id" /\ ~ IsNumeric(w.literal))

WhereHolds(w, r) ==
    /\ w.inc =>
          IF w.key = "id" THEN r > ParseNumber(w.literal)
          ELSE LexGreater(KeyText(r), w.literal)
    /\ w.filter.present => r <= w.filter.le

Min(a, b) == IF a < b THEN a ELSE b

\* fetch_schema(table_name, schema_name): DESC TABLE of the hard-coded table,
\* whatever the arguments.
FetchSchema(S, p) ==
    IF S[HardCodedTable].exists THEN Null ELSE ProgrammingError

\* fetch_table_stats(table_name, schema_name): row_count of the catalog entry
\* named UPPER(table_name) in UPPER(schema_name), 0 when there is none.
FetchTableStats(S, p) ==
    LET hit == {q \in Pairs :
                   /\ S[q].exists
                   /\ CatalogName(q).table_name = Upper(p.table_name)
                   /\ CatalogName(q).schema_name = Upper(p.schema_name)}
    IN IF hit = {} THEN 0
       ELSE Cardinality(S[CHOOSE q \in hit : TRUE].rows)

\* SELECT * ... LIMIT {batch_size} OFFSET {offset}: with no ORDER BY the
\* source may return any batch_size of the matching rows.
Limit(matching, batch_size) ==
    {B \in SUBSET matching :
        Cardinality(B) = Min(batch_size, Cardinality(matching))}

\* fetch_data(table_name, schema_name, batch_size, offset = 0, where_clause):
\* the count of the matching rows of the hard-coded table and one batch.
FetchData(S, p, batch_size, w) ==
    IF ~ S[HardCodedTable].exists \/ WhereError(w)
    THEN [err |-> ProgrammingError, total_rows |-> 0, batches |-> {{}}]
    ELSE LET matching == {r \in S[HardCodedTable].rows : WhereHolds(w, r)}
         IN [err |-> Null, total_rows |-> Cardinality(matching),
             batches |-> Limit(matching, batch_size)]

\* fetch_incremental_data(..., incremental_key, last_value, batch_size,
\* additional_where): where_clause = "{key}" > '{last_value}' [AND filter].
FetchIncrementalData(S, p, key, last_value, batch_size, additional_where) ==
    FetchData(S, p, batch_size,
              [inc |-> TRUE, key |-> key, literal |-> last_value,
               filter |-> additional_where])

\* ---------------------------------------------------- the schema translator
\* A column descriptor of fetch_schema as _create_duckdb_table reads it:
\* col[0] name, col[1] base data type, col[2] character_maximum_length (0 is
\* None), col[5] is_nullable ("YES" or "NO"); col[3] and col[4] are not read.
\* A column definition is the text "{name} {type}[({length})][ NOT NULL]",
\* kept as its four parts (length 0: no length part).

\* type_mapping
TypeMapping ==
    [t \in {"NUMBER", "FLOAT", "VARCHAR", "CHAR", "TEXT", "BOOLEAN", "DATE",
            "TIMESTAMP_NTZ", "TIMESTAMP_TZ", "TIMESTAMP_LTZ"} |->
        CASE t \in {"NUMBER", "FLOAT"} -> "DOUBLE"
          [] t \in {"VARCHAR", "CHAR", "TEXT"} -> "VARCHAR"
          [] t = "BOOLEAN" -> "BOOLEAN"
          [] t = "DATE" -> "DATE"
          [] OTHER -> "TIMESTAMP"]

\* The variant with type_mapping[sf_type]: a key that is not there raises.
MapTypeNoDefault(sf_type) ==
    IF sf_type \in DOMAIN TypeMapping THEN TypeMapping[sf_type]
    ELSE "KeyError"

\* type_mapping.get(sf_type, "VARCHAR")
MapType(sf_type) ==
    IF sf_type \in DOMAIN TypeMapping THEN TypeMapping[sf_type]
    ELSE "VARCHAR"

\* Lines 193-209: the definition of one column.
ColumnDef(col) ==
    LET nullable == col.is_nullable = "YES"
        duck_type == MapType(col.data_type)
    IN [name |-> col.name,
        type |-> duck_type,
        length |-> IF duck_type = "VARCHAR" /\ col.max_length # 0
                   THEN col.max_length ELSE 0,
        suffix |-> IF ~ nullable THEN " NOT NULL" ELSE ""]

\* column_defs, in the order of columns
ColumnDefs(columns) == [i \in 1..Len(columns) |-> ColumnDef(columns[i])]

IdleTranslator == [pc |-> "idle", columns |-> <<>>, column_defs |-> <<>>]

\* _create_duckdb_table(table_name, schema_name, columns), up to the text of
\* the CREATE TABLE statement.
CreateDuckdbTable ==
    /\ translator.pc = "called"
    /\ translator' = [translator EXCEPT
                         !.pc = "done",
                         !.column_defs = ColumnDefs(translator.columns)]
    /\ UNCHANGED <<db, txn, src, svc, resp, nextTableId, nextJobId, clock,
                   runs, celery, parked>>

\* -------------------------------------------------------- handler state
NoRequest ==
    [pair |-> HardCodedTable, strategy |-> FULL, incremental_key |-> Null,
     filter_condition |-> NoFilter, batch_size |-> 1]

IdleSvc ==
    [pc |-> "idle", req |-> NoRequest, table_id |-> 0, job_id |-> 0,
     started_at |-> 0, where |-> NoWhere, source |-> NoSourceTable,
     denoted |-> NoSourceTable, before |-> NoDestTable, df |-> {},
     total_rows |-> 0, stats |-> NoStats, completed_at |-> 0]

NoTxn == [open |-> FALSE, db |-> EmptyDb]

\* resp is the answer to the latest call: NoResp while its handler runs.
\* branch names the path of the handler that produced the answer.
NoResp ==
    [op |-> "none", pair |-> HardCodedTable, code |-> 0, error |-> Null,
     table_id |-> 0, status |-> Null, branch |-> Null]

Response(op, p, code, error, tid, st) ==
    [op |-> op, pair |-> p, code |-> code, error |-> error, table_id |-> tid,
     status |-> st, branch |-> Null]

\* One entry of the history: the job body with the locals v, ended with the
\* given outcome on the store D.
RunRecord(v, D, outcome, error) ==
    [job_id |-> v.job_id, table_id |-> v.table_id, req |-> v.req,
     where |-> v.where, source |-> v.source, denoted |-> v.denoted,
     before |-> v.before, df |-> v.df, total_rows |-> v.total_rows,
     after |-> D.dest[v.req.pair], outcome |-> outcome, error |-> error]

\* ------------------------------------------------ SyncService.register_table
\* The except clause of register_table reads status.HTTP_404_NOT_FOUND, but
\* status is a local variable of the function (assigned on the path of an
\* existing row) and unbound on this path: the handler raises
\* UnboundLocalError, which the framework answers with 500.
RegisterFetchFailed(p) ==
    Response("register", p, 500, "UnboundLocalError", 0, Null)

\* The variant of lines 62-79 without the UPDATE of an inactive row.
RegisterExistingNoUpdate(D, p) == D

\* Lines 62-79: a row of the pair exists; an inactive one is reactivated.
RegisterExisting(D, p) ==
    LET existing == SelectAllowed(D, p)
    IN IF (CHOOSE r \in existing : TRUE).status = "inactive"
       THEN UpdateAllowedStatus(D, existing, "active").db
       ELSE D

RegisterTable(p, fault) ==
    /\ svc.pc = "idle"
    /\ LET existing == SelectAllowed(db, p)
           row == CHOOSE r \in existing : TRUE
           e == IF fault # Null THEN fault ELSE FetchSchema(src, p)
           ins == InsertAllowed(db, AllowedRow(nextTableId, p, "active"))
       IN IF existing # {}
          THEN /\ db' = RegisterExisting(db, p)
               /\ resp' = [Response("register", p, 200, Null, row.table_id,
                               IF row.status = "inactive" THEN "active"
                               ELSE row.status)
                           EXCEPT !.branch = IF row.status = "inactive"
                                             THEN "reactivated"
                                             ELSE "existing"]
               /\ UNCHANGED nextTableId
          ELSE IF e # Null
          THEN /\ resp' = RegisterFetchFailed(p)
               /\ UNCHANGED <<db, nextTableId>>
          ELSE /\ nextTableId <= MaxTableIds
               /\ db' = ins.db
               /\ resp' = IF ins.err = Null
                          THEN [Response("register", p, 200, Null,
                                         nextTableId, "active")
                                EXCEPT !.branch = "inserted"]
                          ELSE Response("register", p, 500, ins.err, 0, Null)
               /\ nextTableId' = nextTableId + 1
    /\ UNCHANGED <<txn, src, svc, nextJobId, clock, runs, celery, translator, parked>>

\* -------------------------------------------------- SyncService.remove_table
\* COMMIT: the statements of the transaction become the committed store.
CommitResult(D, T) == T.db

\* The variant of ROLLBACK that keeps the statements run so far.
RollbackKeepsPartial(D, T) == T.db

\* ROLLBACK: the committed store is what it was at BEGIN TRANSACTION.
RollbackResult(D, T) == D

RemoveBegin(p) ==
    /\ svc.pc = "idle"
    /\ LET existing == SelectAllowed(db, p)
           row == CHOOSE r \in existing : TRUE
       IN IF existing = {}
          THEN /\ resp' = Response("remove", p, 404, "not found", 0, Null)
               /\ UNCHANGED <<txn, svc>>
          ELSE /\ txn' = [open |-> TRUE, db |-> db]
               /\ svc' = [IdleSvc EXCEPT !.pc = "rm_update", !.req.pair = p,
                                         !.table_id = row.table_id]
               /\ resp' = NoResp
    /\ UNCHANGED <<db, src, nextTableId, nextJobId, clock, runs, celery, translator, parked>>

\* One statement of the transaction: on success the handler goes on to next,
\* on an error it rolls back and raises HTTP 500.
RemoveStatement(r, next) ==
    /\ IF r.err = Null
       THEN /\ txn' = [txn EXCEPT !.db = r.db]
            /\ svc' = [svc EXCEPT !.pc = next]
            /\ UNCHANGED <<db, resp>>
       ELSE /\ db' = RollbackResult(db, txn)
            /\ txn' = NoTxn
            /\ svc' = IdleSvc
            /\ resp' = Response("remove", svc.req.pair, 500, r.err, 0, Null)
    /\ UNCHANGED <<src, nextTableId, nextJobId, clock, runs, celery, translator, parked>>

\* A statement the store refuses for a reason of its own (I/O, memory, lock).
Faulted(fault, r) == IF fault THEN Raise("IOException", r.db) ELSE r

RemoveUpdate(fault) ==
    /\ svc.pc = "rm_update"
    /\ RemoveStatement(
          Faulted(fault, UpdateAllowedStatus(txn.db,
              {r \in txn.db.allowed_tables : r.table_id = svc.table_id},
              "inactive")),
          "rm_drop")

RemoveDrop(fault) ==
    /\ svc.pc = "rm_drop"
    /\ RemoveStatement(Faulted(fault, DropTableIfExists(txn.db, svc.req.pair)),
                       "rm_jobs")

RemoveDeleteJobs(fault) ==
    /\ svc.pc = "rm_jobs"
    /\ RemoveStatement(Faulted(fault, DeleteJobsOfTable(txn.db, svc.table_id)),
                       "rm_status")

RemoveDeleteStatus(fault) ==
    /\ svc.pc = "rm_status"
    /\ RemoveStatement(
          Faulted(fault, DeleteStatusOfTable(txn.db, svc.table_id)),
          "rm_commit")

RemoveCommit(fault) ==
    /\ svc.pc = "rm_commit"
    /\ IF fault
       THEN RemoveStatement(Raise("IOException", txn.db), "idle")
       ELSE /\ db' = CommitResult(db, txn)
            /\ txn' = NoTxn
            /\ svc' = IdleSvc
            /\ resp' = Response("remove", svc.req.pair, 200, Null, svc.table_id, "inactive")
            /\ UNCHANGED <<src, nextTableId, nextJobId, clock, runs, celery, translator, parked>>

\* ------------------------------------------------ AdminService.manage_table
\* action = add: a fresh identifier and a plain INSERT; neither the registry
\* nor the source is looked up first.
AdminAddTable(p) ==
    /\ svc.pc = "idle"
    /\ nextTableId <= MaxTableIds
    /\ LET ins == InsertAllowed(db, AllowedRow(nextTableId, p, "active"))
       IN /\ db' = ins.db
          /\ resp' = IF ins.err = Null
                     THEN Response("admin_add", p, 200, Null, nextTableId,
                                   "active")
                     ELSE Response("admin_add", p, 500, ins.err, 0, Null)
          /\ nextTableId' = IF ins.err = Null THEN nextTableId + 1
                            ELSE nextTableId
    /\ UNCHANGED <<txn, src, svc, nextJobId, clock, runs, celery, translator, parked>>

\* The statements of the removal transaction of manage_table, in its order:
\* table_sync_status, sync_jobs, allowed_tables, DROP TABLE (table_tags and
\* table_metadata are never written, their DELETEs change nothing).
AdminRemoveStatements(D, tid, p) ==
    LET s1 == DeleteStatusOfTable(D, tid)
        s2 == DeleteJobsOfTable(s1.db, tid)
        s3 == DeleteAllowed(s2.db, tid)
        s4 == DropTableIfExists(s3.db, p)
    IN IF s2.err # Null THEN Raise(s2.err, D)
       ELSE IF s3.err # Null THEN Raise(s3.err, D)
       ELSE s4

\* action = remove
AdminRemoveTable(p, fault) ==
    /\ svc.pc = "idle"
    /\ LET existing == SelectAllowed(db, p)
           row == CHOOSE r \in existing : TRUE
           r == Faulted(fault, AdminRemoveStatements(db, row.table_id, p))
       IN IF existing = {}
          THEN /\ resp' = Response("admin_remove", p, 404, "not found", 0, Null)
               /\ UNCHANGED db
          ELSE IF r.err # Null
          THEN /\ resp' = Response("admin_remove", p, 500, r.err, 0, Null)
               /\ UNCHANGED db
          ELSE /\ db' = r.db
               /\ resp' = Response("admin_remove", p, 200, Null, row.table_id,
                                   "removed")
    /\ UNCHANGED <<txn, src, svc, nextTableId, nextJobId, clock, runs, celery, translator, parked>>

\* ---------------------------------------------------- SyncService.start_sync
\* The variant of is_table_allowed that does not look at the status.
IsTableAllowedAnyStatus(D, p) == SelectAllowed(D, p) # {}

\* is_table_allowed(table_name, schema_name)
IsTableAllowed(D, p) ==
    LET result == SelectAllowed(D, p)
    IN result # {} /\ (CHOOSE r \in result : TRUE).status = "active"

\* Lines 253-275: the admission check and the INSERT of the job row.
StartSync(q) ==
    /\ svc.pc = "idle"
    /\ IF ~ IsTableAllowed(db, q.pair)
       THEN /\ resp' = Response("start_sync", q.pair, 404, "not found or not allowed",
                                0, Null)
            /\ UNCHANGED <<db, svc, nextJobId, clock>>
       ELSE LET result == {r \in SelectAllowed(db, q.pair) :
                              r.status = "active"}
                tid == (CHOOSE r \in result : TRUE).table_id
            IN IF result = {}
               THEN /\ resp' = Response("start_sync", q.pair, 500,
                                        "TypeError", 0, Null)
                    /\ UNCHANGED <<db, svc, nextJobId, clock>>
               ELSE /\ nextJobId <= MaxJobs
                    /\ db' = InsertJob(db, JobRow(nextJobId, tid, q.strategy,
                                                  RUNNING, clock)).db
                    /\ svc' = [IdleSvc EXCEPT !.pc = "fetch", !.req = q,
                                              !.table_id = tid,
                                              !.job_id = nextJobId,
                                              !.started_at = clock]
                    /\ nextJobId' = nextJobId + 1
                    /\ clock' = clock + 1
                    /\ resp' = NoResp
    /\ UNCHANGED <<txn, src, nextTableId, runs, celery, translator, parked>>

\* Lines 370-387: the except clause of start_sync, on the store D.
SyncFailed(v, D, msg, recorded) ==
    /\ db' = UpdateStatusFailed(
                 UpdateJobFailed(D, svc.job_id, clock, msg).db,
                 svc.table_id, msg).db
    /\ clock' = clock + 1
    /\ resp' = Response("start_sync", v.req.pair, 500, msg, 0, FAILED)
    /\ runs' = IF recorded THEN runs
               ELSE Append(runs, RunRecord(v, D, FAILED, msg))
    /\ svc' = IdleSvc

\* Lines 294-305: the stats of the latest completed job of the table.  The
\* JSON column comes back as a str, and stats.get on a str raises.
LastValue(D, tid) ==
    LET done == {j \in D.sync_jobs :
                    j.table_id = tid /\ j.status = COMPLETED}
        last == CHOOSE j \in done :
                    \A k \in done : k.completed_at <= j.completed_at
    IN IF done # {} /\ last.stats.present
       THEN [err |-> "AttributeError", last_value |-> PyStrNone]
       ELSE [err |-> Null, last_value |-> PyStrNone]

\* Lines 278-321: schema fetch, create-if-absent, the read window, the fetch.
SyncFetch(fault) ==
    /\ svc.pc = "fetch"
    /\ LET q == svc.req
           e == IF fault # Null THEN fault ELSE FetchSchema(src, q.pair)
           D == CreateTableIfNotExists(db, q.pair).db
           lv == IF q.strategy = INCREMENTAL THEN LastValue(D, svc.table_id)
                 ELSE [err |-> Null, last_value |-> PyStrNone]
           w == IF q.strategy = INCREMENTAL
                THEN [inc |-> TRUE, key |-> q.incremental_key,
                      literal |-> lv.last_value,
                      filter |-> q.filter_condition]
                ELSE [NoWhere EXCEPT !.filter = q.filter_condition]
           got == IF q.strategy = INCREMENTAL
                  THEN FetchIncrementalData(src, q.pair, q.incremental_key,
                           lv.last_value, q.batch_size, q.filter_condition)
                  ELSE FetchData(src, q.pair, q.batch_size, w)
           seen == [svc EXCEPT !.where = w, !.source = src[HardCodedTable],
                               !.denoted = src[q.pair],
                               !.before = db.dest[q.pair]]
       IN IF e # Null
          THEN SyncFailed(seen, db, e, FALSE)
          ELSE IF lv.err # Null
          THEN SyncFailed(seen, D, lv.err, FALSE)
          ELSE IF got.err # Null
          THEN SyncFailed(seen, D, got.err, FALSE)
          ELSE /\ \E B \in got.batches :
                     svc' = [seen EXCEPT !.pc = "sync_batch", !.df = B,
                                         !.total_rows = got.total_rows]
               /\ db' = D
               /\ UNCHANGED <<resp, clock, runs>>
    /\ UNCHANGED <<txn, src, nextTableId, nextJobId, celery, translator, parked>>

\* _sync_batch, lines 228-234: an empty batch returns at once; a full sync
\* clears the destination table before the insert.
SyncBatchClear ==
    /\ svc.pc = "sync_batch"
    /\ LET p == svc.req.pair
           del == DeleteFromDest(db, p)
       IN IF svc.df = {}
          THEN /\ svc' = [svc EXCEPT !.pc = "complete",
                             !.stats = [NoStats EXCEPT !.present = TRUE,
                                        !.total_rows = svc.total_rows]]
               /\ UNCHANGED <<db, resp, clock, runs>>
          ELSE IF svc.req.strategy # FULL
          THEN /\ svc' = [svc EXCEPT !.pc = "insert"]
               /\ UNCHANGED <<db, resp, clock, runs>>
          ELSE IF del.err # Null
          THEN SyncFailed(svc, db, del.err, FALSE)
          ELSE /\ db' = del.db
               /\ svc' = [svc EXCEPT !.pc = "insert"]
               /\ UNCHANGED <<resp, clock, runs>>
    /\ UNCHANGED <<txn, src, nextTableId, nextJobId, celery, translator, parked>>

\* _sync_batch, lines 236-243: the insert of the batch.
SyncBatchInsert ==
    /\ svc.pc = "insert"
    /\ LET ins == InsertIntoDest(db, svc.req.pair, svc.df)
       IN IF ins.err # Null
          THEN SyncFailed(svc, db, ins.err, FALSE)
          ELSE /\ db' = ins.db
               /\ svc' = [svc EXCEPT !.pc = "complete",
                             !.stats = [NoStats EXCEPT !.present = TRUE,
                                        !.rows_processed = Cardinality(svc.df),
                                        !.total_rows = svc.total_rows]]
               /\ UNCHANGED <<resp, clock, runs>>
    /\ UNCHANGED <<txn, src, nextTableId, nextJobId, celery, translator, parked>>

\* Lines 330-338: the job row is written completed with its stats.
SyncComplete ==
    /\ svc.pc = "complete"
    /\ db' = UpdateJobCompleted(db, svc.job_id, clock, svc.stats).db
    /\ svc' = [svc EXCEPT !.pc = "watermark", !.completed_at = clock]
    /\ clock' = clock + 1
    /\ runs' = Append(runs, RunRecord(svc, db, COMPLETED, Null))
    /\ UNCHANGED <<txn, src, resp, nextTableId, nextJobId, celery, translator, parked>>

\* Lines 340-357: the table statistics of the source and the watermark row.
SyncWatermark(fault) ==
    /\ svc.pc = "watermark"
    /\ LET up == UpsertStatus(db,
                     StatusRow(svc.table_id, svc.job_id, COMPLETED,
                               svc.completed_at,
                               FetchTableStats(src, svc.req.pair)))
       IN IF fault # Null
          THEN SyncFailed(svc, db, fault, TRUE)
          ELSE IF up.err # Null
          THEN SyncFailed(svc, db, up.err, TRUE)
          ELSE /\ db' = up.db
               /\ svc' = [svc EXCEPT !.pc = "respond"]
               /\ UNCHANGED <<resp, clock, runs>>
    /\ UNCHANGED <<txn, src, nextTableId, nextJobId, celery, translator, parked>>

\* The fields SyncResponse declares without a default, and the keyword
\* arguments start_sync builds it from.
SyncResponseRequired ==
    {"sync_id", "table_name", "schema_name", "strategy", "status"}

StartSyncResponseArgs ==
    {"job_id", "table_name", "schema_name", "strategy", "status",
     "started_at", "completed_at", "stats"}

\* Lines 359-368: the response is built inside the try block; a required
\* field that is not given raises ValidationError, which the except clause
\* of start_sync handles like any failure of the job.
SyncRespond ==
    /\ svc.pc = "respond"
    /\ IF SyncResponseRequired \subseteq StartSyncResponseArgs
       THEN /\ resp' = Response("start_sync", svc.req.pair, 200, Null, 0, COMPLETED)
            /\ svc' = IdleSvc
            /\ UNCHANGED <<db, clock, runs>>
       ELSE SyncFailed(svc, db, "ValidationError", TRUE)
    /\ UNCHANGED <<txn, src, nextTableId, nextJobId, celery, translator, parked>>

\* ----------------------------------------- SyncService.get_table_sync_status
\* The columns of table_sync_status the SELECT of get_table_sync_status names.
StatusQueryColumns ==
    {"last_sync_id", "last_sync_status", "last_sync_at", "last_error",
     "row_count", "size_bytes"}

\* The statement is bound before it runs: a column the table does not have
\* raises BinderException whatever rows there are.
GetTableSyncStatus(p) ==
    /\ svc.pc = "idle"
    /\ resp' = IF ~ (StatusQueryColumns \subseteq TableSyncStatusColumns)
               THEN Response("table_status", p, 500, BinderError, 0, Null)
               ELSE IF SelectAllowed(db, p) = {}
               THEN Response("table_status", p, 404, "not found", 0, Null)
               ELSE Response("table_status", p, 200, Null,
                        (CHOOSE r \in SelectAllowed(db, p) : TRUE).table_id,
                        Null)
    /\ UNCHANGED <<db, txn, src, svc, nextTableId, nextJobId, clock, runs, celery, translator, parked>>

\* ------------------------------------------------------------ concurrency
\* Two handlers at once: each statement is committed by itself, so between
\* two statements of one handler the other may run.  svc is the handler
\* whose statement comes next, parked the one that waits.  The transaction
\* of a removal is not interleaved (one writer at a time).
Switch ==
    /\ ~ txn.open
    /\ svc.pc # "idle" \/ parked.pc # "idle"
    /\ svc' = parked
    /\ parked' = svc
    /\ UNCHANGED <<db, txn, src, resp, nextTableId, nextJobId, clock, runs,
                   celery, translator>>

\* ------------------------------------------------------------- environment
\* A row appears in the source table.
SourceInsert(r) ==
    /\ src[HardCodedTable].exists
    /\ r \notin src[HardCodedTable].rows
    /\ src' = [src EXCEPT ![HardCodedTable].rows = @ \cup {r}]
    /\ UNCHANGED <<db, txn, svc, resp, nextTableId, nextJobId, clock, runs, celery, translator, parked>>

\* ------------------------------------------------------ the Celery worker
\* The columns init_duckdb_tables gives sync_jobs.
SyncJobsColumns ==
    {"job_id", "table_id", "strategy", "status", "error_message",
     "started_at", "completed_at", "rows_synced", "stats"}

\* A statement is bound before it runs: one that names a column its table
\* does not have raises BinderException and changes nothing.
Bind(columns, table, D, r) ==
    IF columns \subseteq table THEN r ELSE Raise(BinderError, D)

\* retry_kwargs = {'max_retries': 3}
MaxRetries == 3

\* autoretry_for = (OperationalError, ProgrammingError)
AutoretryFor == {OperationalError, ProgrammingError}

\* The sync_table task: its Celery state, its arguments, self.request.retries,
\* the runs of its body and the source fault met at each, what it returned or
\* raised; and what the latest cleanup_old_jobs returned.
NoSweep == [status |-> Null, error |-> Null]

IdleCelery ==
    [state |-> "none", sync_id |-> 0, req |-> NoRequest, retries |-> 0,
     attempts |-> 0, faults |-> <<>>, result |-> Null, exc |-> Null,
     sweep |-> NoSweep]

\* sync_table.delay(sync_id, table_name, schema_name, strategy, ...)
TaskEnqueue(j, q) ==
    /\ celery.state = "none"
    /\ celery' = [celery EXCEPT !.state = "PENDING", !.sync_id = j, !.req = q]
    /\ UNCHANGED <<db, txn, src, svc, resp, nextTableId, nextJobId, clock,
                   runs, translator, parked>>

\* The columns the statements of sync_table and on_failure name.
TaskRunningColumns == {"status", "started_at", "retries", "sync_id"}
TaskCompletedColumns == {"status", "completed_at", "stats", "sync_id"}
TaskFailedColumns == {"status", "completed_at", "error", "sync_id"}
TaskStatusCompletedColumns ==
    {"last_sync_id", "last_sync_status", "last_sync_at", "row_count",
     "size_bytes", "table_id"}
TaskStatusFailedColumns == {"last_sync_status", "last_error", "table_id"}

\* UPDATE sync_jobs SET status = running, started_at = ?, retries = ?
UpdateJobRunning(D, jid, t) ==
    Ok([D EXCEPT !.sync_jobs =
            {IF j.job_id = jid
             THEN [j EXCEPT !.status = RUNNING, !.started_at = t]
             ELSE j : j \in @}])

\* SELECT table_id FROM allowed_tables WHERE table_name = ? AND schema_name = ?
TableIdOf(D, p) ==
    IF SelectAllowed(D, p) = {} THEN 0
    ELSE (CHOOSE r \in SelectAllowed(D, p) : TRUE).table_id

\* Lines 139-156: last_value of the stats of the latest completed job.
TaskLastValue(D, p) ==
    LET done == {j \in D.sync_jobs :
                    j.table_id = TableIdOf(D, p) /\ j.status = COMPLETED}
        last == CHOOSE j \in done :
                    \A k \in done : k.completed_at <= j.completed_at
    IN IF done # {} /\ last.stats.present THEN last.stats.last_value
       ELSE PyStrNone

Max(S) == CHOOSE x \in S : \A y \in S : y <= x

\* str(df[incremental_key].max())
MaxKeyText(key, df) ==
    IF key = "id" THEN <<48 + Max(df)>> ELSE KeyText(Max(df))

\* Lines 175-230: the batch df into the destination, then the two updates.
TaskStore(D, a, df, total_rows) ==
    LET q == a.req
        del == IF df # {} /\ q.strategy = FULL
               THEN DeleteFromDest(D, q.pair) ELSE Ok(D)
        ins == IF df # {} THEN InsertIntoDest(del.db, q.pair, df)
               ELSE Ok(del.db)
        stats == [present |-> TRUE, rows_processed |-> Cardinality(df),
                  total_rows |-> total_rows,
                  last_value |->
                      IF /\ q.strategy = INCREMENTAL
                         /\ q.incremental_key # Null
                         /\ df # {}
                      THEN MaxKeyText(q.incremental_key, df)
                      ELSE PyStrNone]
        done == Bind(TaskCompletedColumns, SyncJobsColumns, ins.db,
                     UpdateJobCompleted(ins.db, a.sync_id, clock, stats))
        mark == Bind(TaskStatusCompletedColumns, TableSyncStatusColumns,
                     done.db, Ok(done.db))
    IN IF del.err # Null THEN del
       ELSE IF ins.err # Null THEN ins
       ELSE IF done.err # Null THEN done
       ELSE mark

\* Lines 83-235, the try block of sync_table: the results it can have.
TaskTry(D, S, a, fault) ==
    LET q == a.req
        run == Bind(TaskRunningColumns, SyncJobsColumns, D,
                    UpdateJobRunning(D, a.sync_id, clock))
        e == IF fault # Null THEN fault ELSE FetchSchema(S, q.pair)
        D1 == CreateTableIfNotExists(run.db, q.pair).db
        got == IF q.strategy = INCREMENTAL
               THEN FetchIncrementalData(S, q.pair, q.incremental_key,
                        TaskLastValue(D1, q.pair), q.batch_size,
                        q.filter_condition)
               ELSE FetchData(S, q.pair, q.batch_size,
                              [NoWhere EXCEPT !.filter = q.filter_condition])
    IN IF run.err # Null THEN {run}
       ELSE IF e # Null THEN {Raise(e, run.db)}
       ELSE IF got.err # Null THEN {Raise(got.err, D1)}
       ELSE {TaskStore(D1, a, B, got.total_rows) : B \in got.batches}

\* The two updates of lines 243-259 and of on_failure, lines 42-58.
TaskMarkFailed(D, a, msg) ==
    LET job == Bind(TaskFailedColumns, SyncJobsColumns, D,
                    UpdateJobFailed(D, a.sync_id, clock, msg))
        mark == Bind(TaskStatusFailedColumns, TableSyncStatusColumns, job.db,
                     UpdateStatusFailed(job.db, TableIdOf(job.db, a.req.pair),
                                        msg))
    IN IF job.err # Null THEN job ELSE mark

\* on_failure swallows what its statements raise.
OnFailure(D, a, msg) == TaskMarkFailed(D, a, msg).db

\* What on_failure is given when the retries are used up: the library raises
\* either MaxRetriesExceededError or the exception of the last attempt.
ExhaustedMessages == {"Max retries exceeded", "Task failed"}

\* One run of the body of sync_table by the worker, and what Celery does
\* with its outcome: a retry, SUCCESS with the returned dict, or FAILURE.
SyncTable(fault) ==
    /\ celery.state \in {"PENDING", "RETRY"}
    /\ ~ txn.open
    /\ \E r \in TaskTry(db, src, celery, fault), m \in ExhaustedMessages :
          LET a == [celery EXCEPT !.attempts = @ + 1,
                                  !.faults = Append(@, fault)]
              h == TaskMarkFailed(r.db, celery, r.err)
          IN IF r.err = Null
             THEN /\ db' = r.db
                  /\ celery' = [a EXCEPT !.state = "SUCCESS",
                                         !.result = COMPLETED]
             ELSE IF r.err \in AutoretryFor /\ celery.retries < MaxRetries
             THEN /\ db' = r.db
                  /\ celery' = [a EXCEPT !.state = "RETRY", !.retries = @ + 1]
             ELSE IF r.err \in AutoretryFor
             THEN /\ db' = OnFailure(r.db, celery, m)
                  /\ celery' = [a EXCEPT !.state = "FAILURE", !.exc = r.err]
             ELSE IF h.err = Null
             THEN /\ db' = h.db
                  /\ celery' = [a EXCEPT !.state = "SUCCESS",
                                         !.result = FAILED]
             ELSE /\ db' = OnFailure(h.db, celery, "Task failed")
                  /\ celery' = [a EXCEPT !.state = "FAILURE", !.exc = h.err]
    /\ clock' = clock + 1
    /\ UNCHANGED <<txn, src, svc, resp, nextTableId, nextJobId, runs,
                   translator, parked>>

\* stale_cutoff = now - timedelta(hours=1)
StaleHours == 1

\* beat_schedule: the kwargs of cleanup-old-jobs (every 6 hours) and of
\* cleanup-stale-jobs (every 15 minutes), both of the task cleanup_old_jobs
CleanupOldJobsKwargs == [job_age_hours |-> 24, failed_job_age_hours |-> 72]
CleanupStaleJobsKwargs == [job_age_hours |-> 1, failed_job_age_hours |-> 1]

BeatSchedule == {CleanupOldJobsKwargs, CleanupStaleJobsKwargs}

\* The variant of the DELETE that raises when no row matches.
DeleteOldJobsStrict(D, completed_cutoff, failed_cutoff) ==
    LET old == {j \in D.sync_jobs :
                   \/ j.status = COMPLETED /\ j.completed_at < completed_cutoff
                   \/ j.status = FAILED /\ j.completed_at < failed_cutoff}
    IN IF old = {} THEN Raise("NoRowsMatched", D)
       ELSE IF \E j \in old : JobReferenced(D, j.job_id)
       THEN Raise(ConstraintError, D)
       ELSE Ok([D EXCEPT !.sync_jobs = @ \ old])

\* DELETE FROM sync_jobs WHERE (status = completed AND completed_at < ?)
\* OR (status = failed AND completed_at < ?)
DeleteOldJobs(D, completed_cutoff, failed_cutoff) ==
    LET old == {j \in D.sync_jobs :
                   \/ j.status = COMPLETED /\ j.completed_at < completed_cutoff
                   \/ j.status = FAILED /\ j.completed_at < failed_cutoff}
    IN IF \E j \in old : JobReferenced(D, j.job_id)
       THEN Raise(ConstraintError, D)
       ELSE Ok([D EXCEPT !.sync_jobs = @ \ old])

\* UPDATE sync_jobs SET status = failed, error = 'Job timed out',
\* completed_at = ? WHERE status = running AND started_at < ?
StaleColumns == {"status", "error", "completed_at", "started_at"}

\* The variant of the UPDATE that names the columns of sync_jobs and has no
\* condition on started_at.
UpdateStaleJobsAnyAge(D, now, stale_cutoff) ==
    Ok([D EXCEPT !.sync_jobs =
           {IF j.status = RUNNING
            THEN [j EXCEPT !.status = FAILED,
                           !.error_message = "Job timed out",
                           !.completed_at = now]
            ELSE j : j \in @}])

UpdateStaleJobs(D, now, stale_cutoff) ==
    Bind(StaleColumns, SyncJobsColumns, D,
         Ok([D EXCEPT !.sync_jobs =
                {IF j.status = RUNNING /\ j.started_at < stale_cutoff
                 THEN [j EXCEPT !.status = FAILED,
                                !.error_message = "Job timed out",
                                !.completed_at = now]
                 ELSE j : j \in @}]))

\* cleanup_old_jobs(job_age_hours, failed_job_age_hours) at the time now on
\* the store D: every statement is committed by itself; the first that raises
\* ends the sweep, which returns its message in a report.
SweepStatement(n, D, now, k) ==
    IF n = 1
    THEN DeleteOldJobs(D, now - k.job_age_hours, now - k.failed_job_age_hours)
    ELSE UpdateStaleJobs(D, now, now - StaleHours)

SweepResult(D, now, k) ==
    LET del == SweepStatement(1, D, now, k)
        upd == SweepStatement(2, del.db, now, k)
    IN IF del.err # Null
       THEN [db |-> D, report |-> [status |-> "error", error |-> del.err]]
       ELSE IF upd.err # Null
       THEN [db |-> del.db, report |-> [status |-> "error", error |-> upd.err]]
       ELSE [db |-> upd.db, report |-> [status |-> "success", error |-> Null]]

CleanupOldJobs(k) ==
    /\ ~ txn.open
    /\ LET r == SweepResult(db, clock, k)
       IN /\ db' = r.db
          /\ celery' = [celery EXCEPT !.sweep = r.report]
    /\ UNCHANGED <<txn, src, svc, resp, nextTableId, nextJobId, clock, runs,
                   translator, parked>>

\* An hour passes.
TimePasses ==
    /\ clock < MaxClock
    /\ clock' = clock + 1
    /\ UNCHANGED <<db, txn, src, svc, resp, nextTableId, nextJobId, runs,
                   celery, translator, parked>>

\* ---------------------------------------------------------- specification
SourceTables(contents) ==
    {NoSourceTable} \cup {[exists |-> TRUE, rows |-> S] : S \in contents}

InitStore ==
    /\ db = EmptyDb
    /\ txn = NoTxn
    /\ svc = IdleSvc
    /\ resp = NoResp
    /\ nextTableId = 1
    /\ nextJobId = 1
    /\ clock = 1
    /\ runs = <<>>
    /\ celery = IdleCelery
    /\ translator = IdleTranslator
    /\ parked = IdleSvc

Register ==
    \E p \in Pairs, fault \in {Null, OperationalError} : RegisterTable(p, fault)

Remove ==
    \/ \E p \in Pairs : RemoveBegin(p)
    \/ \E fault \in BOOLEAN : RemoveUpdate(fault)
    \/ \E fault \in BOOLEAN : RemoveDrop(fault)
    \/ \E fault \in BOOLEAN : RemoveDeleteJobs(fault)
    \/ \E fault \in BOOLEAN : RemoveDeleteStatus(fault)
    \/ \E fault \in BOOLEAN : RemoveCommit(fault)

AdminManage ==
    \/ \E p \in Pairs : AdminAddTable(p)
    \/ \E p \in Pairs, fault \in BOOLEAN : AdminRemoveTable(p, fault)

SyncBody ==
    \/ \E fault \in {Null, OperationalError} : SyncFetch(fault)
    \/ SyncBatchClear
    \/ SyncBatchInsert
    \/ SyncComplete
    \/ \E fault \in {Null, OperationalError} : SyncWatermark(fault)
    \/ SyncRespond

RegistryRequests ==
    {q \in OfferedRequests :
        q.strategy = FULL /\ q.filter_condition = NoFilter /\ q.batch_size = 1}

\* The sync engine: registration, the offered requests, a changing source.
InitSync ==
    /\ InitStore
    /\ src \in [Pairs -> SourceTables({{}})]

SyncSpecRequests ==
    {q \in OfferedRequests : q.pair = HardCodedTable \/ q \in RegistryRequests}

NextSync ==
    \/ \E p \in Pairs : RegisterTable(p, Null)
    \/ \E q \in SyncSpecRequests : StartSync(q)
    \/ SyncBody
    \/ \E p \in Pairs : GetTableSyncStatus(p)
    \/ \E r \in Rows : SourceInsert(r)

SpecSync == InitSync /\ [][NextSync]_vars

\* The table registry: registration, removal and the admin operations, with
\* full syncs of one batch size providing the job and watermark rows.
InitRegistry ==
    /\ InitStore
    /\ src \in [Pairs -> SourceTables({{1}})]

NextRegistry ==
    \/ Register
    \/ Remove
    \/ AdminManage
    \/ \E q \in RegistryRequests : nextJobId <= MaxRegistryJobs /\ StartSync(q)
    \/ SyncBody

SpecRegistry == InitRegistry /\ [][NextRegistry]_vars

\* The worker beside the API: the sync_table task for a job row of the store,
\* the two sweeps of the beat schedule, and the hours that pass.
InitWorker ==
    /\ InitStore
    /\ src = [p \in Pairs |-> [exists |-> TRUE, rows |-> {1}]]

Worker ==
    \/ \E j \in {x.job_id : x \in db.sync_jobs}, q \in RegistryRequests :
           TaskEnqueue(j, q)
    \/ \E fault \in SourceFaults : SyncTable(fault)
    \/ \E k \in BeatSchedule : CleanupOldJobs(k)
    \/ TimePasses

\* The API without injected faults.
Api ==
    \/ \E p \in Pairs : RegisterTable(p, Null)
    \/ \E p \in Pairs : RemoveBegin(p)
    \/ RemoveUpdate(FALSE)
    \/ RemoveDrop(FALSE)
    \/ RemoveDeleteJobs(FALSE)
    \/ RemoveDeleteStatus(FALSE)
    \/ RemoveCommit(FALSE)
    \/ \E p \in Pairs : AdminRemoveTable(p, FALSE)
    \/ \E q \in RegistryRequests : nextJobId <= MaxRegistryJobs /\ StartSync(q)
    \/ SyncFetch(Null)
    \/ SyncBatchClear
    \/ SyncBatchInsert
    \/ SyncComplete
    \/ SyncWatermark(Null)
    \/ SyncRespond

NextWorker == Api \/ Worker

SpecWorker == InitWorker /\ [][NextWorker]_vars

\* The sweeps beside jobs that may fail at any call of the source; no table
\* is removed, so a job row leaves sync_jobs only by a sweep.
NextReaper ==
    \/ \E p \in Pairs : RegisterTable(p, Null)
    \/ \E q \in RegistryRequests : StartSync(q)
    \/ SyncBody
    \/ \E k \in BeatSchedule : CleanupOldJobs(k)
    \/ TimePasses

SpecReaper == InitWorker /\ [][NextReaper]_vars

\* Two handlers of the API at once, without injected faults.
NextConcurrent ==
    \/ Api
    \/ \E q \in RegistryRequests : StartSync(q)
    \/ Switch

SpecConcurrent == InitWorker /\ [][NextConcurrent]_vars

\* The schema translator by itself, called with any sequence of at most
\* MaxColumns descriptors: the base types of the mapping and two outside it.
OfferedTypes == DOMAIN TypeMapping \cup {"VARIANT", "DECIMAL"}

Descriptors ==
    [name : {"id", "code"}, data_type : OfferedTypes, max_length : {0, 16},
     is_nullable : {"YES", "NO"}]

ColumnSequences == UNION {[1..n -> Descriptors] : n \in 0..MaxColumns}

InitTranslator ==
    /\ db = EmptyDb
    /\ txn = NoTxn
    /\ src = [p \in Pairs |-> NoSourceTable]
    /\ svc = IdleSvc
    /\ resp = NoResp
    /\ nextTableId = 1
    /\ nextJobId = 1
    /\ clock = 1
    /\ runs = <<>>
    /\ celery = IdleCelery
    /\ translator \in {[IdleTranslator EXCEPT !.pc = "called", !.columns = cs] :
                           cs \in ColumnSequences}
    /\ parked = IdleSvc

SpecTranslator == InitTranslator /\ [][CreateDuckdbTable]_vars

\* ------------------------------------------------------------------ claims
\* The job bodies of the history that wrote their job row completed.
CompletedRuns == {i \in 1..Len(runs) : runs[i].outcome = COMPLETED}

\* The rows of the source table t the filter f selects.
Selected(t, f) == {r \in t.rows : f.present => r <= f.le}

\* C1: after a full sync completes, the destination table holds exactly the
\* rows that sync read from the source, and none when it read none.
C1_FullSyncReplacesDestination ==
    \A i \in CompletedRuns :
        runs[i].req.strategy = FULL
            => runs[i].after = [exists |-> TRUE, rows |-> BagOf(runs[i].df)]

\* C2: a full sync without a filter of a source table of N rows completes
\* with rows_processed = N and N rows in the destination, whatever the
\* batch size.
C2_FullSyncPullsEveryChunk ==
    \A i \in CompletedRuns :
        (/\ runs[i].req.strategy = FULL
         /\ runs[i].req.pair = HardCodedTable
         /\ runs[i].req.filter_condition = NoFilter)
            => /\ Cardinality(runs[i].df) = Cardinality(runs[i].source.rows)
               /\ runs[i].after =
                      [exists |-> TRUE, rows |-> BagOf(runs[i].source.rows)]

\* C3: a second completed full sync of the same request over an unchanged
\* source leaves the destination with the contents the first one left.
C3_FullSyncIdempotent ==
    \A i, j \in CompletedRuns :
        (/\ j = i + 1
         /\ runs[i].req.strategy = FULL
         /\ runs[j].req = runs[i].req
         /\ runs[j].table_id = runs[i].table_id
         /\ runs[j].source = runs[i].source)
            => runs[j].after = runs[i].after

\* C4: an incremental sync of a table without a recorded watermark ends
\* completed and reads what a full sync with the same filter reads.
C4_IncrementalWithoutWatermarkReadsAll ==
    \A i \in 1..Len(runs) :
        (/\ runs[i].req.strategy = INCREMENTAL
         /\ runs[i].req.pair = HardCodedTable
         /\ runs[i].req.incremental_key # Null
         /\ runs[i].source.exists
         /\ runs[i].where.literal = PyStrNone
         /\ runs[i].error # OperationalError)
            => /\ runs[i].outcome = COMPLETED
               /\ runs[i].total_rows =
                      Cardinality(Selected(runs[i].source,
                                           runs[i].req.filter_condition))
               /\ runs[i].df \in
                      Limit(Selected(runs[i].source,
                                     runs[i].req.filter_condition),
                            runs[i].req.batch_size)

\* C5: of two consecutive completed incremental syncs of a table on the same
\* key, the second reads no row the first one read.
C5_IncrementalReadsOnlyNewRows ==
    \A i, j \in CompletedRuns :
        (/\ j = i + 1
         /\ runs[i].req.strategy = INCREMENTAL
         /\ runs[j].req.strategy = INCREMENTAL
         /\ runs[j].req.pair = runs[i].req.pair
         /\ runs[j].table_id = runs[i].table_id
         /\ runs[j].req.incremental_key = runs[i].req.incremental_key)
            => runs[j].df \cap runs[i].df = {}

\* The program counters of remove_table between BEGIN and COMMIT.
RemovePcs == {"rm_update", "rm_drop", "rm_jobs", "rm_status", "rm_commit"}

\* What remove_table is to leave of the table tid of the pair p in D.
Removed(D, tid, p) ==
    /\ \A r \in D.allowed_tables : r.table_id = tid => r.status = "inactive"
    /\ ~ D.dest[p].exists
    /\ \A j \in D.sync_jobs : j.table_id # tid
    /\ \A w \in D.table_sync_status : w.table_id # tid

\* C6: a remove that fails inside its transaction answers with an internal
\* error and leaves the committed store as it was at BEGIN; a remove that
\* commits leaves all four effects; no committed store holds an inactive
\* table with only a part of them.
C6_RemoveAllOrNothing ==
    /\ [][(svc.pc \in RemovePcs /\ svc'.pc = "idle")
             => IF resp'.code = 200
                THEN Removed(db', svc.table_id, svc.req.pair)
                ELSE /\ resp'.op = "remove"
                     /\ resp'.code = 500
                     /\ db' = db]_vars
    /\ [](\A r \in db.allowed_tables :
             r.status = "inactive"
                 => Removed(db, r.table_id,
                            [schema_name |-> r.schema_name,
                             table_name |-> r.table_name]))

\* A remove failed on a constraint after it had marked the row inactive and
\* dropped the table inside its transaction: the committed store still has
\* the active row, the table and the job row.
C6_Witness ==
    /\ resp.op = "remove"
    /\ resp.code = 500
    /\ resp.error = ConstraintError
    /\ \E r \in SelectAllowed(db, resp.pair) : r.status = "active"
    /\ db.dest[resp.pair].exists
    /\ db.sync_jobs # {}

\* C7: a remove of a registered table that the store does not refuse for a
\* reason of its own succeeds, whatever job and watermark rows the table has.
C7_RemoveSucceedsWithSyncRows ==
    (resp.op = "remove" /\ resp.code # 404 /\ resp.error # "IOException")
        => /\ resp.code = 200
           /\ Removed(db, resp.table_id, resp.pair)

\* C8: no two rows of the registry have the same (schema_name, table_name),
\* and no two have the same table_id.
C8_RegistryUnique ==
    \A r1, r2 \in db.allowed_tables :
        (\/ r1.table_id = r2.table_id
         \/ (r1.schema_name = r2.schema_name
                /\ r1.table_name = r2.table_name))
            => r1 = r2

\* The registry refused a second row for a pair that has one.
C8_Witness ==
    /\ resp.op = "admin_add"
    /\ resp.code = 500
    /\ resp.error = ConstraintError
    /\ SelectAllowed(db, resp.pair) # {}

\* A step of register_table for the pair p other than a repeated answer.
RegisterStep(p) ==
    /\ svc.pc = "idle"
    /\ resp'.op = "register"
    /\ resp'.pair = p
    /\ (resp' # resp \/ db' # db)

\* C9: register of a pair that has a registry row adds no row, answers with
\* the table_id that row had, and leaves the row active.
C9_RegisterKeepsIdentity ==
    [][\A p \in Pairs :
          (RegisterStep(p) /\ SelectAllowed(db, p) # {})
              => LET row == CHOOSE r \in SelectAllowed(db, p) : TRUE
                 IN /\ resp'.code = 200
                    /\ resp'.table_id = row.table_id
                    /\ resp'.status = "active"
                    /\ {r.table_id : r \in db'.allowed_tables} =
                           {r.table_id : r \in db.allowed_tables}
                    /\ SelectAllowed(db', p) =
                           {[row EXCEPT !.status = "active"]}]_vars

\* A removed table was registered again and has the identifier it had.
C9_Witness ==
    /\ resp.op = "register"
    /\ resp.branch = "reactivated"
    /\ \E r \in SelectAllowed(db, resp.pair) :
           r.table_id = resp.table_id /\ r.status = "active"

\* C10: register of a pair without a registry row that the source does not
\* have fails with not-found and leaves the registry unchanged.
C10_RegisterAbsentFails ==
    [][\A p \in Pairs :
          (RegisterStep(p) /\ SelectAllowed(db, p) = {} /\ ~ src[p].exists)
              => /\ resp'.code = 404
                 /\ db'.allowed_tables = db.allowed_tables]_vars

\* The program counters of the job body of start_sync.
BodyPcs == {"fetch", "sync_batch", "insert", "complete", "watermark", "respond"}

\* A step of start_sync for the pair p that ends in an answer other than a
\* repeated one.
StartSyncAnswer(p) ==
    /\ svc.pc = "idle"
    /\ resp'.op = "start_sync"
    /\ resp'.pair = p
    /\ resp' # resp

\* C11: start_sync for a pair that is not registered, or registered and
\* inactive, answers not-allowed and writes nothing: no job row, no watermark
\* row, no change of the destination store; a job body starts only for a
\* table that is active.
C11_StartSyncRefusesInactive ==
    /\ [][\A p \in Pairs :
             (/\ StartSyncAnswer(p)
              /\ ~ \E r \in SelectAllowed(db, p) : r.status = "active")
                 => /\ resp'.code = 404
                    /\ db' = db
                    /\ nextJobId' = nextJobId]_vars
    /\ [][(svc.pc = "idle" /\ svc'.pc = "fetch")
             => \E r \in SelectAllowed(db, svc'.req.pair) :
                    r.status = "active" /\ r.table_id = svc'.table_id]_vars

\* start_sync was refused for a table that is registered but inactive.
C11_Witness ==
    /\ resp.op = "start_sync"
    /\ resp.code = 404
    /\ \E r \in SelectAllowed(db, resp.pair) : r.status = "inactive"
    /\ db.sync_jobs = {}

\* The task has ended: Celery will not run its body again.
TaskEnded == celery.state \in {"SUCCESS", "FAILURE"}

\* The job row the task was given.
TaskJob == {j \in db.sync_jobs : j.job_id = celery.sync_id}

\* The faults met so far are the first ones of the sequence plan.
FaultsFollow(plan) ==
    /\ Len(celery.faults) <= Len(plan)
    /\ \A i \in 1..Len(celery.faults) : celery.faults[i] = plan[i]

\* C12: a task whose source fails with a transient fault at attempts 1 and 2
\* and not at attempt 3 ends after three attempts with its job completed and
\* a retry count of 2.
C12_RetrySucceedsOnThirdAttempt ==
    (TaskEnded /\ FaultsFollow(<<OperationalError, OperationalError, Null>>))
        => /\ celery.attempts = 3
           /\ celery.retries = 2
           /\ celery.result = COMPLETED
           /\ \A j \in TaskJob : j.status = COMPLETED

\* C13: a task whose source fails with a transient fault at every attempt is
\* retried at most MaxRetries times and ends with its job failed, the error
\* saying that the retries are exhausted.
C13_RetryExhaustionFailsJob ==
    /\ celery.retries <= MaxRetries
    /\ (/\ TaskEnded
        /\ celery.faults # <<>>
        /\ \A i \in 1..Len(celery.faults) :
               celery.faults[i] = OperationalError)
           => /\ celery.attempts = MaxRetries + 1
              /\ \A j \in TaskJob :
                     /\ j.status = FAILED
                     /\ j.error_message = "Max retries exceeded"

\* C14: a task whose source raises a logical error at the first attempt runs
\* its body once and ends with its job failed with that error and no retry.
C14_LogicalErrorNotRetried ==
    /\ (celery.faults # <<>> /\ celery.faults[1] = ProgrammingError)
           => celery.attempts = 1 /\ celery.retries = 0
    /\ (TaskEnded /\ celery.faults # <<>>
            /\ celery.faults[1] = ProgrammingError)
           => \A j \in TaskJob :
                  j.status = FAILED /\ j.error_message = ProgrammingError

\* C15: a sweep of cleanup_old_jobs moves every job that is running and was
\* started before the staleness bound to failed with "Job timed out".
C15_ReaperFailsStaleJobs ==
    [][celery'.sweep # celery.sweep
          => \A j \in db.sync_jobs :
                 (j.status = RUNNING /\ j.started_at < clock - StaleHours)
                     => \E k \in db'.sync_jobs :
                            /\ k.job_id = j.job_id
                            /\ k.status = FAILED
                            /\ k.error_message = "Job timed out"]_vars

\* C16: a job row is created pending or running, its status moves only from
\* pending to running and from running to completed or failed, and a row that
\* is completed or failed is not changed by any later step.
C16_JobStatusMonotone ==
    [][/\ \A k \in db'.sync_jobs :
              (\A j \in db.sync_jobs : j.job_id # k.job_id)
                  => k.status \in {PENDING, RUNNING}
       /\ \A j \in db.sync_jobs, k \in db'.sync_jobs :
              (k.job_id = j.job_id /\ k # j)
                  => \/ j.status = PENDING /\ k.status = RUNNING
                     \/ j.status = RUNNING /\ k.status \in {COMPLETED, FAILED}
      ]_vars

\* C17: start_sync answers with a job that is pending or running before the
\* job body runs: while the body is at any of its steps the caller has the
\* answer, and no answer to an admitted start_sync carries another status.
C17_StartSyncReturnsAtOnce ==
    /\ svc.pc \in BodyPcs
           => /\ resp.op = "start_sync"
              /\ resp.code = 200
              /\ resp.status \in {PENDING, RUNNING}
    /\ (resp.op = "start_sync" /\ resp.code # 404)
           => resp.code = 200 /\ resp.status \in {PENDING, RUNNING}

\* The contents of the destination table the job in progress is to leave.
PostRows ==
    IF svc.df = {} THEN svc.before.rows
    ELSE IF svc.req.strategy = FULL THEN BagOf(svc.df)
    ELSE BagAdd(svc.before.rows, svc.df)

\* C18: between the fetch of a job and its end, the committed destination
\* table holds either the contents it had before the job or the contents the
\* job is to leave.
C18_ClearAndInsertAtomic ==
    svc.pc \in (BodyPcs \ {"fetch"})
        => db.dest[svc.req.pair].rows \in {svc.before.rows, PostRows}

\* C19: table_sync_status has at most one row for a table_id.
C19_OneWatermarkRowPerTable ==
    \A w1, w2 \in db.table_sync_status :
        w1.table_id = w2.table_id => w1 = w2

\* C20: the job a table_sync_status row names is a row of sync_jobs, and it
\* is a job of the table of that row.
C20_WatermarkJobExists ==
    \A w \in db.table_sync_status :
        \E j \in db.sync_jobs :
            j.job_id = w.job_id /\ j.table_id = w.table_id

\* A sweep was refused the deletion of an old job that a table_sync_status
\* row names.
C20_Witness ==
    /\ celery.sweep.status = "error"
    /\ celery.sweep.error = ConstraintError
    /\ \E w \in db.table_sync_status, j \in db.sync_jobs :
           /\ j.job_id = w.job_id
           /\ j.status = FAILED
           /\ j.completed_at < clock - 1

\* The jobs a step writes failed.
NewlyFailed == {k \in db'.sync_jobs : k.status = FAILED /\ k \notin db.sync_jobs}

\* C21: when a job is written failed, table_sync_status afterwards has a row
\* of the job's table with last_sync_status failed and the job's error
\* message, also when the table had no row before.
C21_FailureReachesWatermark ==
    [][\A k \in NewlyFailed :
          \E w \in db'.table_sync_status :
              /\ w.table_id = k.table_id
              /\ w.last_sync_status = FAILED
              /\ w.last_error_message = k.error_message]_vars

C23_FailedJobsHaveMessage ==
    \A j \in db.sync_jobs :
        /\ j.status \in SyncStatus
        /\ j.status = FAILED => j.error_message \notin {Null, ""}

\* start_sync has written a job failed, with the text of the exception.
C23_Witness ==
    \E j \in db.sync_jobs :
        /\ j.status = FAILED
        /\ j.error_message = resp.error
        /\ resp.op = "start_sync"
        /\ resp.code = 500

\* C24: after a snapshot sync that read at least one row completes, the
\* destination table holds exactly the rows it read, as after a full sync.
C24_SnapshotReplacesDestination ==
    \A i \in CompletedRuns :
        (runs[i].req.strategy = SNAPSHOT /\ runs[i].df # {})
            => runs[i].after = [exists |-> TRUE, rows |-> BagOf(runs[i].df)]

\* The job rows of the job body i of the history.
JobOfRun(i) == {j \in db.sync_jobs : j.job_id = runs[i].job_id}

\* C25: the stats of an incremental job that read at least one row and was
\* written completed have last_value, the text of the largest value of the
\* incremental key among the rows read.
C25_IncrementalStoresLastValue ==
    \A i \in CompletedRuns :
        (runs[i].req.strategy = INCREMENTAL /\ runs[i].df # {})
            => \A j \in JobOfRun(i) :
                   j.stats.last_value =
                       MaxKeyText(runs[i].req.incremental_key, runs[i].df)

\* The job body i of the history is over.
RunEnded(i) == ~ (svc.pc \in BodyPcs /\ svc.job_id = runs[i].job_id)

\* C26: a job whose read returned no rows and that met no fault of the source
\* afterwards ends completed with rows_processed = 0.
C26_EmptyReadCompletes ==
    \A i \in CompletedRuns :
        (runs[i].df = {} /\ RunEnded(i))
            => \A j \in JobOfRun(i) :
                   j.error_message # OperationalError
                       => j.status = COMPLETED /\ j.stats.rows_processed = 0

\* C27: a job row leaves sync_jobs only when it is completed and older than
\* the age cleanup-old-jobs keeps completed jobs, or failed and older than the
\* age it keeps failed jobs; a pending or running row never leaves.
C27_RetentionRespectsAges ==
    [][\A j \in db.sync_jobs :
          (\A k \in db'.sync_jobs : k.job_id # j.job_id)
              => \/ /\ j.status = COMPLETED
                    /\ j.completed_at <
                           clock - CleanupOldJobsKwargs.job_age_hours
                 \/ /\ j.status = FAILED
                    /\ j.completed_at <
                           clock - CleanupOldJobsKwargs.failed_job_age_hours
      ]_vars

\* C28: after a sweep, table_sync_status has for every job that was running
\* and started before the staleness bound a row of the job's table with
\* last_sync_status failed and the error "Job timed out".
C28_ReaperUpdatesWatermark ==
    [][celery'.sweep # celery.sweep
          => \A j \in db.sync_jobs :
                 (j.status = RUNNING /\ j.started_at < clock - StaleHours)
                     => \E w \in db'.table_sync_status :
                            /\ w.table_id = j.table_id
                            /\ w.last_sync_status = FAILED
                            /\ w.last_error_message = "Job timed out"]_vars

\* C29: the translator gives every sequence of descriptors one definition per
\* column, in the order and with the names of the input; each has a type of
\* the destination: VARCHAR for a base type outside the mapping, DOUBLE for
\* NUMBER and FLOAT, TIMESTAMP for the three timestamp types; and it ends in
\* NOT NULL exactly when the column is not nullable.
C29_TranslatorTotal ==
    translator.pc = "done"
        => LET cs == translator.columns
               ds == translator.column_defs
           IN /\ Len(ds) = Len(cs)
              /\ \A i \in 1..Len(cs) :
                     /\ ds[i].name = cs[i].name
                     /\ ds[i].type \in
                            {"DOUBLE", "VARCHAR", "BOOLEAN", "DATE", "TIMESTAMP"}
                     /\ cs[i].data_type \notin DOMAIN TypeMapping
                            => ds[i].type = "VARCHAR"
                     /\ cs[i].data_type \in {"NUMBER", "FLOAT"}
                            => ds[i].type = "DOUBLE" /\ ds[i].length = 0
                     /\ cs[i].data_type \in
                            {"TIMESTAMP_NTZ", "TIMESTAMP_TZ", "TIMESTAMP_LTZ"}
                            => ds[i].type = "TIMESTAMP" /\ ds[i].length = 0
                     /\ (ds[i].suffix = " NOT NULL")
                            <=> (cs[i].is_nullable = "NO")

\* A nullable column of a type outside the mapping, followed by a NUMBER
\* column that is not nullable, has been translated.
C29_Witness ==
    /\ translator.pc = "done"
    /\ Len(translator.columns) = 2
    /\ translator.columns[1].data_type = "VARIANT"
    /\ translator.columns[1].is_nullable = "YES"
    /\ translator.column_defs[1] =
           [name |-> translator.columns[1].name, type |-> "VARCHAR",
            length |-> translator.columns[1].max_length, suffix |-> ""]
    /\ translator.columns[2].data_type = "NUMBER"
    /\ translator.column_defs[2].type = "DOUBLE"
    /\ translator.column_defs[2].suffix = " NOT NULL"

\* No handler is in progress.
Quiet == svc.pc = "idle" /\ parked.pc = "idle"

\* The jobs of the runs i and j ran at the same time: the job of run j was
\* inserted before the job of run i and wrote completed after it. Both job
\* rows are still in the store.
Overlapped(i, j) ==
    /\ i < j
    /\ runs[j].job_id < runs[i].job_id
    /\ JobOfRun(i) # {}
    /\ JobOfRun(j) # {}

\* C31: once two jobs of a table that ran at the same time and both wrote
\* completed have ended, table_sync_status has a row of the table and every
\* row of the table names the job that wrote completed last.
C31_LastCompletedWins ==
    Quiet
        => \A i, j \in CompletedRuns :
               (/\ runs[i].table_id = runs[j].table_id
                /\ Overlapped(i, j))
                   => LET ws == {w \in db.table_sync_status :
                                    w.table_id = runs[j].table_id}
                      IN /\ ws # {}
                         /\ \A w \in ws : w.job_id = runs[j].job_id

\* C36: once two full syncs of a table that ran at the same time over the
\* same source rows, each reading all of them, have ended, the destination
\* table holds each source row once.
C36_ConcurrentFullSyncsOnce ==
    Quiet
        => \A i, j \in CompletedRuns :
               (/\ runs[i].table_id = runs[j].table_id
                /\ runs[i].req.strategy = FULL
                /\ runs[j].req.strategy = FULL
                /\ runs[i].source = runs[j].source
                /\ runs[i].df = runs[i].source.rows
                /\ runs[j].df = runs[j].source.rows
                /\ Overlapped(i, j))
                   => db.dest[runs[j].req.pair] =
                          [exists |-> TRUE, rows |-> BagOf(runs[j].source.rows)]

\* C37: a remove that runs while a job of the table is in progress succeeds
\* and leaves its four effects; and once no handler is in progress, every
\* inactive table is without destination table, job rows and watermark rows.
C37_RemovalWinsOverJob ==
    /\ [][(/\ svc.pc \in RemovePcs
           /\ svc'.pc = "idle"
           /\ parked.pc \in BodyPcs
           /\ parked.table_id = svc.table_id)
              => /\ resp'.code = 200
                 /\ Removed(db', svc.table_id, svc.req.pair)]_vars
    /\ [](Quiet
             => \A r \in db.allowed_tables :
                    r.status = "inactive"
                        => Removed(db, r.table_id,
                                   [schema_name |-> r.schema_name,
                                    table_name |-> r.table_name]))

\* C38: the table_id of every job row and of every table_sync_status row is
\* the table_id of a registry row.
C38_RowsReferToRegistry ==
    /\ \A j \in db.sync_jobs :
           \E r \in db.allowed_tables : r.table_id = j.table_id
    /\ \A w \in db.table_sync_status :
           \E r \in db.allowed_tables : r.table_id = w.table_id

\* The admin removal deleted a table while a job of it was in progress, and
\* the upsert of that job was then refused.
C38_Witness ==
    /\ resp.op = "start_sync"
    /\ resp.error = ConstraintError
    /\ SelectAllowed(db, resp.pair) = {}
    /\ \E i \in CompletedRuns :
           /\ runs[i].req.pair = resp.pair
           /\ JobOfRun(i) = {}

\* The completed incremental runs before run j of the same table and key that
\* read at least one row and met no fault of the source afterwards.
EarlierIncremental(j) ==
    {i \in CompletedRuns :
        /\ i < j
        /\ \A x \in JobOfRun(i) : x.error_message # OperationalError
        /\ runs[i].table_id = runs[j].table_id
        /\ runs[i].req.strategy = INCREMENTAL
        /\ runs[i].req.incremental_key = runs[j].req.incremental_key
        /\ runs[i].df # {}}

\* C35: the literal an incremental run compares its key with is the greatest
\* key text an earlier completed incremental run of the table read, whenever
\* there is such a run.
C35_WatermarkNeverRegresses ==
    \A j \in 1..Len(runs) :
        (/\ runs[j].req.strategy = INCREMENTAL
         /\ runs[j].where.inc
         /\ EarlierIncremental(j) # {})
            => /\ \E i \in EarlierIncremental(j) :
                      runs[j].where.literal =
                          MaxKeyText(runs[i].req.incremental_key, runs[i].df)
               /\ \A i \in EarlierIncremental(j) :
                      ~ LexGreater(MaxKeyText(runs[i].req.incremental_key,
                                              runs[i].df),
                                   runs[j].where.literal)

\* C32: a sweep that runs while the handler of a stale running job is still in
\* its body, before its write of completed, marks the job failed with
\* "Job timed out" (the first half of the interleaving in which the worker
\* then overwrites the forced failure).
C32_ReaperMarksJobOfLiveWorker ==
    [][celery'.sweep # celery.sweep
          => \A j \in db.sync_jobs :
                 (/\ j.status = RUNNING
                  /\ j.started_at < clock - StaleHours
                  /\ svc.job_id = j.job_id
                  /\ svc.pc \in {"fetch", "sync_batch", "insert", "complete"})
                     => \E x \in db'.sync_jobs :
                            /\ x.job_id = j.job_id
                            /\ x.status = FAILED
                            /\ x.error_message = "Job timed out"
                            /\ svc'.pc = svc.pc]_vars

\* What a sweep may do to the job row j: leave it, delete it when it is
\* completed or failed, or write a stale running row failed.
SweepFrame(j) ==
    \/ j \in db'.sync_jobs
    \/ /\ j.status \in {COMPLETED, FAILED}
       /\ \A x \in db'.sync_jobs : x.job_id # j.job_id
    \/ /\ j.status = RUNNING
       /\ j.started_at < clock - StaleHours
       /\ [j EXCEPT !.status = FAILED, !.error_message = "Job timed out",
                    !.completed_at = clock] \in db'.sync_jobs
       /\ Cardinality({x \in db'.sync_jobs : x.job_id = j.job_id}) = 1

\* C33: a step that is not one of a handler of the API (a sweep, or time
\* passing) adds no job row, and changes a job row only by deleting a
\* completed or failed one or by writing a stale running one failed with
\* "Job timed out": pending rows, younger running rows and the rows of the
\* completed and failed jobs that stay are left as they are.
C33_SweepChangesOnlyStaleRunning ==
    [][(svc' = svc /\ resp' = resp)
          => /\ \A j \in db.sync_jobs : SweepFrame(j)
             /\ \A x \in db'.sync_jobs :
                    \E j \in db.sync_jobs : j.job_id = x.job_id]_vars

\* A sweep has reached its UPDATE, and the job of a handler that is in its
\* body is running beside a completed or failed job of an hour ago or more.
C33_Witness ==
    /\ celery.sweep.error = BinderError
    /\ \E j \in db.sync_jobs : j.status = RUNNING /\ svc.job_id = j.job_id
    /\ \E j \in db.sync_jobs :
           j.status \in {COMPLETED, FAILED} /\ j.completed_at < clock

\* Two sweeps a and b at the time now, interleaved statement by statement in
\* every order: the stores and the two reports they can end with.  A sweep is
\* at its statement pc, and over at pc 3.
SweepStart == [pc |-> 1, report |-> NoSweep]

SweepStep(p, D, now, k) ==
    LET r == SweepStatement(p.pc, D, now, k)
    IN IF r.err # Null
       THEN [db |-> D,
             p |-> [pc |-> 3, report |-> [status |-> "error", error |-> r.err]]]
       ELSE [db |-> r.db,
             p |-> IF p.pc = 2
                   THEN [pc |-> 3,
                         report |-> [status |-> "success", error |-> Null]]
                   ELSE [p EXCEPT !.pc = 2]]

RECURSIVE Overlapping(_, _, _, _, _, _)
Overlapping(D, now, a, ka, b, kb) ==
    IF a.pc = 3 /\ b.pc = 3
    THEN {[db |-> D, a |-> a.report, b |-> b.report]}
    ELSE (IF a.pc < 3
          THEN LET s == SweepStep(a, D, now, ka)
               IN Overlapping(s.db, now, s.p, ka, b, kb)
          ELSE {})
         \cup
         (IF b.pc < 3
          THEN LET s == SweepStep(b, D, now, kb)
               IN Overlapping(s.db, now, a, ka, s.p, kb)
          ELSE {})

\* C34: on every store the program reaches, a second sweep at the same
\* instant leaves the store of the first and returns the report of the first;
\* and two sweeps of the beat schedule interleaved statement by statement end
\* with the store and the reports of the one after the other.
C34_SweepsIdempotent ==
    /\ \A k \in BeatSchedule :
           LET one == SweepResult(db, clock, k)
               two == SweepResult(one.db, clock, k)
           IN two.db = one.db /\ two.report = one.report
    /\ \A ka, kb \in BeatSchedule :
           LET first == SweepResult(db, clock, ka)
               second == SweepResult(first.db, clock, kb)
           IN \A o \in Overlapping(db, clock, SweepStart, ka, SweepStart, kb) :
                  /\ o.db = second.db
                  /\ o.a = first.report
                  /\ o.b = second.report

\* A sweep has run, and a sweep at this instant deletes a job row.
C34_Witness ==
    /\ celery.sweep.status # Null
    /\ \E k \in BeatSchedule :
           SweepResult(db, clock, k).db.sync_jobs # db.sync_jobs

\* The process that runs the body of a job dies: the job row stays as the
\* body left it, and nothing of the body runs any more.
WorkerDies ==
    /\ svc.pc \in BodyPcs
    /\ svc' = IdleSvc
    /\ UNCHANGED <<db, txn, src, resp, nextTableId, nextJobId, clock, runs,
                   celery, translator, parked>>

\* Jobs whose process may die, beside the sweeps of the beat schedule.  The
\* bodies of the jobs, both entries of the schedule and the clock keep going.
NextLive == NextReaper \/ WorkerDies

SpecLive ==
    /\ InitWorker
    /\ [][NextLive]_vars
    /\ WF_vars(SyncBody)
    /\ WF_vars(TimePasses)
    /\ \A k \in BeatSchedule : WF_vars(CleanupOldJobs(k))

\* The job id has a row that is pending or running, started early enough for
\* the staleness bound to pass within MaxClock.
JobOpen(id) ==
    \E j \in db.sync_jobs :
        /\ j.job_id = id
        /\ j.status \in {PENDING, RUNNING}
        /\ j.started_at < MaxClock - StaleHours

\* C39: every job that is pending or running is later completed, failed or
\* deleted, when job bodies, sweeps and the clock keep going, even if the
\* process of the job dies in its body.
C39_EveryJobEnds ==
    \A id \in 1..MaxJobs : JobOpen(id) ~> ~ JobOpen(id)

====
